---- MODULE Spec2Model ----
(***************************************************************************)
(* Capital budgeting engine of src/src/capital_budgeting_extended.py:      *)
(* build_solve (model construction, solve, solution extraction,            *)
(* deduplication, fallback) and enumerate_k_best (iterative exclusion).    *)
(*                                                                         *)
(* The MILP solver is an opaque capability.  It is modelled by the set of  *)
(* outcomes it may produce for the constraints the builder emits: a        *)
(* terminal status and a pool of feasible 0/1 assignments, slot 0 being    *)
(* the incumbent.  Project ids are strings, written as tuples of one       *)
(* character strings, because the native pool path recovers ids from       *)
(* variable names by string surgery.                                      *)
(***************************************************************************)
EXTENDS Integers, Sequences, FiniteSets, TLC

VARIABLES
    df,             \* the caller's dataset: [rows, columns]
    args,           \* the caller's arguments of the top-level call
    pc,             \* position of the top-level call
    benefit_used,   \* build_solve local: objective coefficient per project
    m,              \* gp.Model of the build_solve call at hand: params, Status, pool
    pool_objs,      \* build_solve local: objective value read per pool slot
    s,              \* build_solve local: pool slot being read
    reads,          \* how the solver answers the slot reads of this call
    solutions,      \* build_solve local: raw batch
    unique,         \* build_solve local: deduplicated batch
    found,          \* enumerate_k_best local: accumulator
    exclude_sets,   \* enumerate_k_best local: selections to forbid
    i,              \* enumerate_k_best local: round index
    result,         \* what the top-level call gave back: a return value or an exception
    optimizeCalls,  \* number of m.optimize() invocations so far
    allOptimal,     \* whether every m.optimize() so far ended with Status OPTIMAL
    enumCalls,      \* number of enumerate_k_best invocations so far
    prev,           \* the caller's earlier top-level call: its arguments and outcome
    gui             \* MainWindow and SolverThread: buttons, thread, signals

vars == <<df, args, pc, benefit_used, m, pool_objs, s, reads, solutions, unique, found, exclude_sets, i,
          result, optimizeCalls, allOptimal, enumCalls, prev, gui>>

-----------------------------------------------------------------------------
(* Bounds of the model *)

\* largest number of rows in a dataset
MaxProj == 2
\* largest pool_solutions / k requested
MaxPool == 2
\* largest number of optional arguments that differ from their default in one call
MaxNonDefault == 2

-----------------------------------------------------------------------------
(* Python values *)

\* None, where the other values are numbers >= 0
None == 0 - 1

Min2(a, b) == IF a <= b THEN a ELSE b

RECURSIVE SumSeq(_)
SumSeq(q) == IF q = <<>> THEN 0 ELSE Head(q) + SumSeq(Tail(q))

Range(q) == {q[n] : n \in 1..Len(q)}

\* q[:n]
Prefix(q, n) == SubSeq(q, 1, Min2(n, Len(q)))

\* number of positions of q that hold x
Count(q, x) == Cardinality({n \in 1..Len(q) : q[n] = x})

-----------------------------------------------------------------------------
(* Project ids and the dataset *)

IdP1  == <<"P", "1">>
IdP2  == <<"P", "2">>
IdP_1 == <<"P", "_", "1">>

\* character codes, for Python's string order
Ord(c) == CASE c = "1" -> 49 [] c = "2" -> 50 [] c = "P" -> 80 [] c = "[" -> 91
            [] c = "]" -> 93 [] c = "_" -> 95 [] c = "x" -> 120 [] OTHER -> 0

RECURSIVE StrLess(_, _)
StrLess(a, b) ==
    IF b = <<>> THEN FALSE
    ELSE IF a = <<>> THEN TRUE
    ELSE IF Ord(Head(a)) # Ord(Head(b)) THEN Ord(Head(a)) < Ord(Head(b))
    ELSE StrLess(Tail(a), Tail(b))

Row(id, c, b, sc, r, l) ==
    [proj_id |-> id, cost |-> c, benefit |-> b, social_score |-> sc, region |-> r, labour |-> l]

\* the rows datasets are drawn from
Catalog == << Row(IdP1, 100, 50, 2, "N", 3),
              Row(IdP2, 200, 90, 1, "S", 2),
              Row(IdP_1, 100, 70, 3, "N", 1) >>

RowSeq(ix) == SelectSeq(Catalog, LAMBDA r : \E n \in ix : Catalog[n] = r)

\* 'cost', 'benefit', 'labour' are always columns; 'social_score', 'region' are optional
ColumnSets == { {"region"}, {"social_score"} }

Datasets ==
    { [rows |-> RowSeq(ix), columns |-> cs] :
        ix \in {x \in SUBSET (1..Len(Catalog)) : Cardinality(x) \in 1..MaxProj},
        cs \in ColumnSets }

\* df['proj_id'].tolist()
Projects(d) == [n \in 1..Len(d.rows) |-> d.rows[n].proj_id]

ProjSet(d) == Range(Projects(d))

\* df.set_index('proj_id')[col].to_dict()
Column(d, col) ==
    [p \in ProjSet(d) |->
        LET r == CHOOSE r \in Range(d.rows) : r.proj_id = p
        IN  CASE col = "cost" -> r.cost
              [] col = "benefit" -> r.benefit
              [] col = "social_score" -> r.social_score
              [] col = "region" -> r.region
              [] col = "labour" -> r.labour]

HasColumn(d, col) == col \in {"proj_id", "cost", "benefit", "labour"} \cup d.columns

-----------------------------------------------------------------------------
(* Objective blender: build_solve lines 57-77 *)

\* multi_crit_alpha is given in halves: alpha / AlphaDen
AlphaDen == 2

\* the guard 1e-9 of the normalisation is 1 / EpsInv; it is scaled to keep the
\* products within TLC's 32-bit integers (only its being positive and small matters)
EpsInv == 1000

RECURSIVE SumOver(_, _)
SumOver(S, f) ==
    IF S = {} THEN 0
    ELSE LET p == CHOOSE p \in S : TRUE IN f[p] + SumOver(S \ {p}, f)

MinOf(S) == CHOOSE v \in S : \A w \in S : v <= w
MaxOf(S) == CHOOSE v \in S : \A w \in S : v >= w

\* benefit_used.  Without a 'social_score' column it is the raw benefit.  With one
\* it is alpha * b_norm + (1 - alpha) * s_norm, times the mean benefit; every
\* coefficient is then written over the common positive denominator
\* AlphaDen * (Rb + eps) * (Rs + eps) * len(df) * EpsInv, so only numerators are kept.
BenefitUsed(d, alpha) ==
    IF HasColumn(d, "social_score")
    THEN LET b    == Column(d, "benefit")
             sc   == Column(d, "social_score")
             bmin == MinOf({b[p] : p \in ProjSet(d)})
             smin == MinOf({sc[p] : p \in ProjSet(d)})
             Rb   == MaxOf({b[p] : p \in ProjSet(d)}) - bmin
             Rs   == MaxOf({sc[p] : p \in ProjSet(d)}) - smin
             SumB == SumOver(ProjSet(d), b)
         IN  [p \in ProjSet(d) |->
                (alpha * (b[p] - bmin) * (Rs * EpsInv + 1)
                 + (AlphaDen - alpha) * (sc[p] - smin) * (Rb * EpsInv + 1)) * SumB]
    ELSE Column(d, "benefit")

-----------------------------------------------------------------------------
(* Constraint model builder: build_solve lines 114-168 *)

\* a linear constraint  sum(w[p] * x[p]) <sense> rhs
Lin(name, w, sense, rhs) == [name |-> name, w |-> w, sense |-> sense, rhs |-> rhs]

\* [p for p in group if p in projects]
Members(d, group) == SelectSeq(group, LAMBDA p : p \in ProjSet(d))

\* gp.quicksum(x[p] for p in members)
Indicator(d, members) == [p \in ProjSet(d) |-> Count(members, p)]

\* variant: the budget row bounds the cost by what the budget leaves of the total cost
BudgetConstrs_Complement(d, budget) ==
    { Lin("Budget", Column(d, "cost"), "<=", SumOver(ProjSet(d), Column(d, "cost")) - budget) }

\* variant: the budget row is not added
BudgetConstrs_Dropped(d, budget) == {}

BudgetConstrs(d, budget) == { Lin("Budget", Column(d, "cost"), "<=", budget) }

CardinalityConstrs(d, K) ==
    IF K # None THEN { Lin("Cardinality", [p \in ProjSet(d) |-> 1], "<=", K) } ELSE {}

ExclusivityConstrs(d, groups) ==
    { Lin("Excl", Indicator(d, Members(d, groups[g])), "<=", 1) :
        g \in {g \in 1..Len(groups) : Members(d, groups[g]) # <<>>} }

\* variant: the dependency rows are not added
DependencyConstrs_Dropped(d, deps) == {}

\* x[j] <= x[i] for (i, j), j requires i
DependencyConstrs(d, deps) ==
    { Lin("Dep",
          [p \in ProjSet(d) |-> (IF p = deps[n][2] THEN 1 ELSE 0) - (IF p = deps[n][1] THEN 1 ELSE 0)],
          "<=", 0) :
        n \in {n \in 1..Len(deps) : deps[n][1] \in ProjSet(d) /\ deps[n][2] \in ProjSet(d)} }

\* resource_caps is a dict, written as a tuple of <<name, cap>>
ResourceConstrs(d, caps) ==
    { Lin("Resource", Column(d, caps[n][1]), "<=", caps[n][2]) :
        n \in {n \in 1..Len(caps) : HasColumn(d, caps[n][1])} }

\* forbid selecting all members of a previous selection at once
ExcludeConstrs(d, ex) ==
    { Lin("Exclude", Indicator(d, Members(d, ex[n])), "<=", Len(Members(d, ex[n])) - 1) :
        n \in {n \in 1..Len(ex) : Members(d, ex[n]) # <<>>} }

\* [p for p in projects if region_map.get(p, '') == region]
RegionMembers(d, region) ==
    SelectSeq(Projects(d), LAMBDA p : Column(d, "region")[p] = region)

\* region_min_max is a dict, written as a tuple of <<region, min_req, max_req>>
RegionConstrs(d, quotas) ==
    LET live == {n \in 1..Len(quotas) : RegionMembers(d, quotas[n][1]) # <<>>}
    IN  { Lin("RegionMax", Indicator(d, RegionMembers(d, quotas[n][1])),
              "<=", quotas[n][3]) :
            n \in {n \in live : quotas[n][3] # None} }
        \cup
        { Lin("RegionMin", Indicator(d, RegionMembers(d, quotas[n][1])),
              ">=", quotas[n][2]) :
            n \in {n \in live : quotas[n][2] # None /\ quotas[n][2] > 0} }

\* variant: the quota check of line 158 never fires
RegionConfigError_Never(d, a) == FALSE

\* "region_min_max specified but no 'region' column in df"
RegionConfigError(d, a) == a.region_min_max # <<>> /\ ~HasColumn(d, "region")

\* every constraint build_solve adds for arguments a and exclusion sets ex
Constraints(d, a, ex) ==
    BudgetConstrs(d, a.budget)
    \cup CardinalityConstrs(d, a.K)
    \cup ExclusivityConstrs(d, a.groups_exclusive)
    \cup DependencyConstrs(d, a.dependencies)
    \cup ResourceConstrs(d, a.resource_caps)
    \cup ExcludeConstrs(d, ex)
    \cup (IF a.region_min_max # <<>> THEN RegionConstrs(d, a.region_min_max) ELSE {})

-----------------------------------------------------------------------------
(* The solve capability: m.optimize(), line 181 *)

\* an assignment is the set of projects whose variable is 1
Satisfies(S, c) ==
    IF c.sense = "<=" THEN SumOver(S, c.w) <= c.rhs ELSE SumOver(S, c.w) >= c.rhs

FeasibleSets(d, constrs) ==
    {S \in SUBSET ProjSet(d) : \A c \in constrs : Satisfies(S, c)}

\* value of the objective set at line 118
ObjOf(coef, S) == SumOver(S, coef)

\* variant: a search that ran to the end may still miss the best assignments
Pools_Unproven(F, coef, limit, proven) ==
    { q \in UNION { [1..n -> F] : n \in 1..Min2(limit, Cardinality(F)) } :
        \A a, b \in 1..Len(q) : a < b => q[a] # q[b] /\ ObjOf(coef, q[a]) >= ObjOf(coef, q[b]) }

\* pools the solver may hold: distinct feasible assignments, best first, at most
\* `limit` of them.  When the search ran to the end (`proven`) the pool holds the
\* best assignments: nothing outside the pool beats a member of it.
Pools(F, coef, limit, proven) ==
    { q \in UNION { [1..n -> F] : n \in 1..Min2(limit, Cardinality(F)) } :
        /\ \A a, b \in 1..Len(q) : a < b => q[a] # q[b] /\ ObjOf(coef, q[a]) >= ObjOf(coef, q[b])
        /\ (proven => \A S \in F \ Range(q) : ObjOf(coef, S) <= ObjOf(coef, q[Len(q)])) }

Usable == {"OPTIMAL", "SUBOPTIMAL", "TIME_LIMIT"}

\* what optimize() may leave in the model: a terminal status and the pool.  Only
\* the incumbent is kept when no pool search was asked for (nothing else is read).
SolverOutcomes(F, coef, params) ==
    LET limit == IF params.PoolSearchMode = 2 THEN params.PoolSolutions ELSE 1
        timed == params.TimeLimit # None
    IN  IF F = {}
        THEN { [Status |-> st, pool |-> <<>>] :
                 st \in {"INFEASIBLE", "INF_OR_UNBD"} \cup (IF timed THEN {"TIME_LIMIT"} ELSE {}) }
        ELSE { [Status |-> "OPTIMAL", pool |-> q] : q \in Pools(F, coef, limit, TRUE) }
             \cup { [Status |-> "SUBOPTIMAL", pool |-> q] : q \in Pools(F, coef, limit, FALSE) }
             \cup (IF timed
                   THEN { [Status |-> "TIME_LIMIT", pool |-> q] :
                            q \in Pools(F, coef, limit, FALSE) \cup {<<>>} }
                   ELSE {})

-----------------------------------------------------------------------------
(* Solver parameters: build_solve lines 79-112 *)

\* time_per_solve=time_limit if time_limit else 30
FallbackTime == 30

\* a fresh gp.Model: parameters at the solver's defaults (None), nothing solved
FreshModel ==
    [PoolSearchMode |-> 0, PoolSolutions |-> None, PoolGap |-> None, TimeLimit |-> None,
     SolutionNumber |-> 0, Status |-> "LOADED", SolCount |-> 0, pool |-> <<>>]

\* the model after lines 79-112.  PoolSolutions = 0 is below the solver's minimum:
\* the assignment of line 87 raises and is swallowed, the default stays.
\* PoolGap is a fraction, written in percent.
NewModel(pool_solutions, pool_gap, time_limit) ==
    LET timed == [FreshModel EXCEPT !.TimeLimit = IF time_limit # None THEN time_limit ELSE None]
    IN  IF pool_solutions > 0
        THEN [timed EXCEPT !.PoolSearchMode = 2,
                           !.PoolSolutions = pool_solutions,
                           !.PoolGap = IF pool_gap # None THEN pool_gap ELSE 100]
        ELSE [timed EXCEPT !.PoolGap = IF pool_gap # None THEN pool_gap ELSE None]

-----------------------------------------------------------------------------
(* Solution extractor and deduplicator: build_solve lines 183-269 *)

Solution(n, sel, obj) == [sol_no |-> n, selected |-> sel, obj |-> obj]

\* gurobipy names the variables of addVars(projects, name='x')  x[<id>]
VarName(p) == <<"x", "[">> \o p \o <<"]">>

\* str.split(ch)[-1]
AfterLast(str, ch) ==
    LET at == {n \in 1..Len(str) : str[n] = ch}
    IN  IF at = {} THEN str ELSE SubSeq(str, MaxOf(at) + 1, Len(str))

\* str.replace(ch, '')
Remove(str, ch) == SelectSeq(str, LAMBDA c : c # ch)

\* 'P' + vname.split('P')[-1].replace(']', '').replace('_', '')
IdFromVarName(vname) == <<"P">> \o Remove(Remove(AfterLast(vname, "P"), "]"), "_")

\* lines 223-230: the ids recovered from the names of the variables that are 1 in X
RECURSIVE SelFromNames(_, _)
SelFromNames(projs, X) ==
    IF projs = <<>> THEN <<>>
    ELSE (IF Head(projs) \in X /\ "P" \in Range(VarName(Head(projs)))
          THEN <<IdFromVarName(VarName(Head(projs)))>> ELSE <<>>)
         \o SelFromNames(Tail(projs), X)

\* [p for p in projects if x[p] > 0.5]
SelFromVars(projs, X) == SelectSeq(projs, LAMBDA p : p \in X)

\* m.ObjVal, x[p].X: the incumbent
Incumbent(mod) == mod.pool[1]

\* How the slot reads of a pooled call are answered.  A read that has started to
\* raise keeps raising for the rest of the call (the slot API going away
\* mid-stream):
\*   "up"  getAttr('X', vars) answers
\*   "xn"  getAttr('X', vars) raises, var.Xn answers
\*   "x"   getAttr('X', vars) raises, var.Xn is missing or raises, var.X answers
ReadModes == {"up", "xn", "x"}
NextReadModes(mode) == IF mode = "up" THEN ReadModes ELSE {mode}

\* variant: a slot whose values cannot be read is given no project
SlotSelected_Blank(d, mod, mode) ==
    IF mode = "up" THEN SelFromNames(Projects(d), Incumbent(mod))
    ELSE IF mode = "xn" THEN SelFromVars(Projects(d), mod.pool[mod.SolutionNumber + 1])
    ELSE <<>>

\* lines 209-254 for one slot.  getAttr('X', vars) reads the incumbent whatever
\* SolutionNumber is; only Xn reads the slot.
SlotSelected(d, mod, mode) ==
    IF mode = "up" THEN SelFromNames(Projects(d), Incumbent(mod))
    ELSE IF mode = "xn" THEN SelFromVars(Projects(d), mod.pool[mod.SolutionNumber + 1])
    ELSE SelFromVars(Projects(d), Incumbent(mod))

\* lines 192-207.  getAttr(PoolObjVal, vars) asks a model attribute of variables
\* and raises; the loop then reads PoolObjVal slot by slot, a failed read giving
\* m.ObjVal.  The reads of slots bad, bad + 1, ... raise.
PoolObjs(coef, mod, take, bad) ==
    [n \in 1..take |-> IF (n - 1) >= bad THEN ObjOf(coef, Incumbent(mod))
                       ELSE ObjOf(coef, mod.pool[n])]

\* lines 256-259
SingleBest(d, coef, mod) ==
    << Solution(0, SelFromVars(Projects(d), Incumbent(mod)), ObjOf(coef, Incumbent(mod))) >>

\* sorted(sel)
RECURSIVE Insert(_, _)
Insert(q, x) ==
    IF q = <<>> THEN <<x>>
    ELSE IF StrLess(x, Head(q)) THEN <<x>> \o q
    ELSE <<Head(q)>> \o Insert(Tail(q), x)

RECURSIVE Sorted(_)
Sorted(q) == IF q = <<>> THEN <<>> ELSE Insert(Sorted(Tail(q)), Head(q))

\* variant: the key is the selection as listed
Key_Unsorted(sol) == sol.selected

\* key = tuple(sorted(sol.get('selected', [])))
Key(sol) == Sorted(sol.selected)

\* lines 261-269
RECURSIVE DedupFrom(_, _)
DedupFrom(sols, seen) ==
    IF sols = <<>> THEN <<>>
    ELSE IF Key(Head(sols)) \in seen THEN DedupFrom(Tail(sols), seen)
    ELSE <<Head(sols)>> \o DedupFrom(Tail(sols), seen \cup {Key(Head(sols))})

Dedup(sols) == DedupFrom(sols, {})

\* variant: the fallback runs whenever a pool was requested
NeedsFallback_Always(pool_solutions, uniq) == pool_solutions > 0

\* line 276
NeedsFallback(pool_solutions, uniq) == pool_solutions > 0 /\ Len(uniq) < pool_solutions

\* variant: the native batch is kept
Supersede_Kept(uniq, enum_sols, pool_solutions) == uniq

\* variant: the enumeration is appended to the native batch
Supersede_Appended(uniq, enum_sols, pool_solutions) == uniq \o enum_sols

\* lines 291-294: the enumeration, when it found anything, replaces the native batch
Supersede(uniq, enum_sols, pool_solutions) ==
    IF enum_sols # <<>> THEN Prefix(enum_sols, pool_solutions) ELSE uniq

-----------------------------------------------------------------------------
(* The calls the model makes: one top-level call per behaviour *)

Budgets    == {250}
KOpts      == {None, 1}
GroupOpts  == {<<>>, << <<IdP1, IdP2>> >>}
DepOpts    == {<<>>, << <<IdP1, IdP2>> >>, << <<IdP_1, IdP1>> >>, << <<IdP1, IdP_1>> >>}
ResOpts    == {<<>>, << <<"labour", 2>>, <<"land", 0>> >>}
RegionOpts == {<<>>, << <<"N", 1, 1>> >>, << <<"S", 2, None>>, <<"W", 1, None>> >>}
TimeOpts   == {None, 60}
GapOpts    == {None}
AlphaOpts  == {1, AlphaDen}

\* how many optional arguments differ from the default of the signature
NonDefault(a) ==
    (IF a.K # None THEN 1 ELSE 0)
    + (IF a.groups_exclusive # <<>> THEN 1 ELSE 0)
    + (IF a.dependencies # <<>> THEN 1 ELSE 0)
    + (IF a.resource_caps # <<>> THEN 1 ELSE 0)
    + (IF a.region_min_max # <<>> THEN 1 ELSE 0)
    + (IF a.time_limit # None THEN 1 ELSE 0)
    + (IF a.pool_solutions # 0 THEN 1 ELSE 0)
    + (IF a.pool_gap # None THEN 1 ELSE 0)
    + (IF a.multi_crit_alpha # AlphaDen THEN 1 ELSE 0)
    + (IF a.k # None THEN 1 ELSE 0)

\* arguments of a top-level build_solve(df, ...) or enumerate_k_best(df, ..., k=k),
\* with the budget in budgets and at most maxPool solutions requested
ArgSpace(d, budgets, maxPool) ==
    { a \in [entry : {"build_solve", "enumerate_k_best"},
             budget : budgets, K : KOpts, groups_exclusive : GroupOpts,
             dependencies : DepOpts, resource_caps : ResOpts, region_min_max : RegionOpts,
             time_limit : TimeOpts, pool_solutions : 0..maxPool, pool_gap : GapOpts,
             multi_crit_alpha : AlphaOpts, k : {None} \cup (1..maxPool)] :
        /\ NonDefault(a) <= MaxNonDefault
        /\ (a.entry = "build_solve") = (a.k = None)
        /\ a.entry = "enumerate_k_best" => a.pool_solutions = 0 /\ a.pool_gap = None
        /\ ~HasColumn(d, "social_score") => a.multi_crit_alpha = AlphaDen }

\* build_solve called from Python, without window or thread
NoGui ==
    [caller |-> "none", window |-> "none", btn_solve |-> TRUE, btn_stop |-> FALSE,
     budget_ok |-> TRUE, warned |-> FALSE, thread |-> "none", connected |-> FALSE,
     emitted |-> <<>>, handled |-> <<>>]

\* no earlier call
NoPrev == [args |-> <<>>, kind |-> "none", best |-> None, allOptimal |-> TRUE]

NoResult == [kind |-> "none", solutions |-> <<>>, error |-> "", status |-> ""]
Return(sols, st) == [kind |-> "return", solutions |-> sols, error |-> "", status |-> st]
Raise(err) == [kind |-> "raise", solutions |-> <<>>, error |-> err, status |-> ""]

\* the state in which a top-level call starts
Start ==
    /\ pc = IF args.entry = "build_solve" THEN "build" ELSE "enum"
    /\ benefit_used = <<>>
    /\ m = FreshModel
    /\ pool_objs = <<>>
    /\ s = 0
    /\ reads = "up"
    /\ solutions = <<>>
    /\ unique = <<>>
    /\ found = <<>>
    /\ exclude_sets = <<>>
    /\ i = 0
    /\ result = NoResult
    /\ optimizeCalls = 0
    /\ allOptimal = TRUE
    /\ enumCalls = IF args.entry = "build_solve" THEN 0 ELSE 1
    /\ prev = NoPrev
    /\ gui = NoGui

Init ==
    /\ df \in Datasets
    /\ args \in ArgSpace(df, Budgets, MaxPool)
    /\ Start

\* benefit_used of the call, once lines 57-77 have run
Coef == benefit_used

\* lines 79-168: parameters, variables, objective, constraints; the quota check
\* of line 158 raises before the solve
Build ==
    /\ pc = "build"
    /\ benefit_used' = BenefitUsed(df, args.multi_crit_alpha)
    /\ m' = NewModel(args.pool_solutions, args.pool_gap, args.time_limit)
    /\ IF RegionConfigError(df, args)
       THEN pc' = "raised" /\ result' = Raise("ValueError")
       ELSE pc' = "optimize" /\ UNCHANGED result
    /\ UNCHANGED <<df, args, prev, gui, pool_objs, s, reads, solutions, unique, found, exclude_sets, i,
                   optimizeCalls, allOptimal, enumCalls>>

\* line 181
Optimize ==
    /\ pc = "optimize"
    /\ \E o \in SolverOutcomes(FeasibleSets(df, Constraints(df, args, <<>>)), Coef, m) :
          /\ m' = [m EXCEPT !.Status = o.Status, !.SolCount = Len(o.pool), !.pool = o.pool]
          /\ allOptimal' = (allOptimal /\ o.Status = "OPTIMAL")
    /\ optimizeCalls' = optimizeCalls + 1
    /\ pc' = "collect"
    /\ UNCHANGED <<df, args, prev, gui, benefit_used, pool_objs, s, reads, solutions, unique, found, exclude_sets, i,
                   result, enumCalls>>

\* getattr(m, 'SolCount', 0)
SolCount(mod) == mod.SolCount

\* min(avail, pool_solutions)
Take == Min2(SolCount(m), args.pool_solutions)

\* lines 184-190 and 256-259: choose the read; the single best is read at once, and
\* reading x[p].X of a model without incumbent raises
Collect ==
    /\ pc = "collect"
    /\ IF m.Status \notin Usable
       THEN pc' = "dedup" /\ UNCHANGED <<solutions, result>>
       ELSE IF args.pool_solutions > 0 /\ SolCount(m) > 0
       THEN pc' = "pool_objs" /\ UNCHANGED <<solutions, result>>
       ELSE IF SolCount(m) = 0
       THEN pc' = "raised" /\ result' = Raise("GurobiError") /\ UNCHANGED solutions
       ELSE pc' = "dedup" /\ solutions' = SingleBest(df, Coef, m) /\ UNCHANGED result
    /\ UNCHANGED <<df, args, prev, gui, benefit_used, m, pool_objs, s, reads, unique, found, exclude_sets, i,
                   optimizeCalls, allOptimal, enumCalls>>

\* lines 192-207: the loop leaves SolutionNumber at the last slot
ReadPoolObjs ==
    /\ pc = "pool_objs"
    /\ \E bad \in 0..Take : pool_objs' = PoolObjs(Coef, m, Take, bad)
    /\ m' = [m EXCEPT !.SolutionNumber = Take - 1]
    /\ s' = 0
    /\ pc' = "pool_read"
    /\ UNCHANGED <<df, args, prev, gui, benefit_used, reads, solutions, unique, found, exclude_sets, i, result,
                   optimizeCalls, allOptimal, enumCalls>>

\* lines 209-254, one pass of the loop
ReadSlot ==
    /\ pc = "pool_read"
    /\ s < Take
    /\ \E mode \in NextReadModes(reads) :
          LET mod == [m EXCEPT !.SolutionNumber = s]
          IN  /\ m' = mod
              /\ reads' = mode
              /\ solutions' = Append(solutions,
                                Solution(s, SlotSelected(df, mod, mode), pool_objs[s + 1]))
    /\ s' = s + 1
    /\ pc' = IF s + 1 < Take THEN "pool_read" ELSE "dedup"
    /\ UNCHANGED <<df, args, prev, gui, benefit_used, pool_objs, unique, found, exclude_sets, i, result,
                   optimizeCalls, allOptimal, enumCalls>>

\* lines 261-296 up to the fallback call; the raw batch, the slot objectives, the
\* slot index and the pool of the model are not read after line 272
DedupStep ==
    /\ pc = "dedup"
    /\ unique' = Dedup(solutions)
    /\ solutions' = <<>> /\ pool_objs' = <<>> /\ s' = 0 /\ reads' = "up"
    /\ m' = [m EXCEPT !.pool = <<>>, !.SolutionNumber = 0]
    /\ IF NeedsFallback(args.pool_solutions, unique')
       THEN /\ pc' = "enum"
            /\ enumCalls' = enumCalls + 1
            /\ found' = <<>> /\ exclude_sets' = <<>> /\ i' = 0
            /\ UNCHANGED result
       ELSE /\ pc' = "returned"
            /\ result' = Return(unique', m.Status)
            /\ UNCHANGED <<enumCalls, found, exclude_sets, i>>
    /\ UNCHANGED <<df, args, prev, gui, benefit_used, optimizeCalls, allOptimal>>

-----------------------------------------------------------------------------
(* K-best fallback enumerator: enumerate_k_best lines 317-355 *)

\* k of the enumeration
RequestedK == IF args.entry = "build_solve" THEN args.pool_solutions ELSE args.k

\* per_solve: build_solve passes time_per_solve, a direct caller leaves it None
PerSolve ==
    IF args.entry = "build_solve"
    THEN (IF args.time_limit # None /\ args.time_limit # 0 THEN args.time_limit ELSE FallbackTime)
    ELSE args.time_limit

\* variant: the rounds pass the caller's pool_solutions on
RoundArgs_Pooled == [args EXCEPT !.time_limit = PerSolve, !.pool_gap = None]

\* the arguments of the build_solve call of a round (lines 323-333)
RoundArgs == [args EXCEPT !.time_limit = PerSolve, !.pool_solutions = 0, !.pool_gap = None]

\* what build_solve(pool_solutions=0) returns for solver outcome o: the batch, or
\* the exception raised by the single-best read
RoundSolve(coef, o) ==
    LET mod == [NewModel(0, None, PerSolve) EXCEPT !.Status = o.Status,
                                                   !.SolCount = Len(o.pool), !.pool = o.pool]
    IN  IF mod.Status \notin Usable THEN Return(<<>>, mod.Status)
        ELSE IF SolCount(mod) = 0 THEN Raise("GurobiError")
        ELSE Return(Dedup(SingleBest(df, coef, mod)), mod.Status)

\* variant: an empty selection does not end the loop
EndsEnumeration_Never(sel) == FALSE

\* if not sel: break  (lines 351-352)
EndsEnumeration(sel) == sel = <<>>

\* variant: the list of exclusion sets is started anew with the selection
ExcludeAppend_Reset(ex, sel) == <<sel>>

\* variant: the selection is put in front of the exclusion sets
ExcludeAppend_Prepended(ex, sel) == <<sel>> \o ex

\* exclude_sets.append(sel), line 353
ExcludeAppend(ex, sel) == Append(ex, sel)

\* variant: the entry keeps the sequence number build_solve gave it
Entry_Unlabelled(best, n, ex) ==
    [sol_no |-> best.sol_no, selected |-> best.selected, obj |-> best.obj,
     iteration |-> n, excluded |-> ex]

\* dict(best) relabelled, with the metadata of lines 345-346
Entry(best, n, ex) ==
    [sol_no |-> n, selected |-> best.selected, obj |-> best.obj,
     iteration |-> n, excluded |-> ex]

\* one pass of the loop of line 322, the build_solve call included
Round ==
    /\ pc = "enum"
    /\ i < RequestedK
    /\ benefit_used' = BenefitUsed(df, RoundArgs.multi_crit_alpha)
    /\ IF RegionConfigError(df, RoundArgs)
       THEN /\ pc' = "raised" /\ result' = Raise("ValueError")
            /\ UNCHANGED <<found, exclude_sets, i, optimizeCalls, allOptimal, enumCalls>>
       ELSE \E o \in SolverOutcomes(FeasibleSets(df, Constraints(df, RoundArgs, exclude_sets)),
                                    benefit_used', NewModel(0, None, PerSolve)) :
              LET res == RoundSolve(benefit_used', o)
              IN  /\ optimizeCalls' = optimizeCalls + 1
                  /\ allOptimal' = (allOptimal /\ o.Status = "OPTIMAL")
                  /\ enumCalls' = enumCalls
                        + (IF res.kind = "return" /\ NeedsFallback(RoundArgs.pool_solutions, res.solutions)
                           THEN 1 ELSE 0)
                  /\ IF res.kind = "raise"
                     THEN /\ pc' = "raised" /\ result' = res
                          /\ UNCHANGED <<found, exclude_sets, i>>
                     ELSE IF res.solutions = <<>>
                     THEN /\ pc' = "enum_done"
                          /\ UNCHANGED <<found, exclude_sets, i, result>>
                     ELSE LET best == res.solutions[1]
                          IN  /\ found' = Append(found, Entry(best, i, exclude_sets))
                              /\ IF EndsEnumeration(best.selected)
                                 THEN pc' = "enum_done" /\ UNCHANGED <<exclude_sets, i>>
                                 ELSE /\ exclude_sets' = ExcludeAppend(exclude_sets, best.selected)
                                      /\ i' = i + 1
                                      /\ pc' = IF i + 1 < RequestedK THEN "enum" ELSE "enum_done"
                              /\ UNCHANGED result
    /\ UNCHANGED <<df, args, prev, gui, m, pool_objs, s, reads, solutions, unique>>

\* line 355, and lines 291-296 of the build_solve that called
EnumReturn ==
    /\ pc = "enum_done"
    /\ pc' = "returned"
    /\ IF args.entry = "build_solve"
       THEN /\ unique' = Supersede(unique, found, args.pool_solutions)
            /\ result' = Return(unique', m.Status)
       ELSE /\ result' = Return(found, "")
            /\ UNCHANGED unique
    /\ UNCHANGED <<df, args, prev, gui, benefit_used, m, pool_objs, s, reads, solutions, found, exclude_sets, i,
                   optimizeCalls, allOptimal, enumCalls>>

Next == Build \/ Optimize \/ Collect \/ ReadPoolObjs \/ ReadSlot \/ DedupStep \/ Round \/ EnumReturn

Spec == Init /\ [][Next]_vars

\* the two-project example of the specification: P1 (cost 100, benefit 50) and
\* P2 (cost 200, benefit 90), under each of its budgets
ExampleBudgets == {150, 250, 300}

InitExample ==
    /\ df \in {d \in Datasets : Projects(d) = <<IdP1, IdP2>>}
    /\ args \in ArgSpace(df, ExampleBudgets, MaxPool)
    /\ Start

SpecExample == InitExample /\ [][Next]_vars

\* one-project datasets with more solutions requested than selections exist
MaxKBest == 3

InitKBest ==
    /\ df \in {d \in Datasets : Len(d.rows) = 1}
    /\ args \in ArgSpace(df, Budgets, MaxKBest)
    /\ Start

SpecKBest == InitKBest /\ [][Next]_vars

-----------------------------------------------------------------------------
(* A caller that calls build_solve twice on the same dataset *)

\* largest number of optional arguments that differ from their default in a first
\* call without pool; a first call with a pool leaves every other at its default
MaxPairNonDefault == 1

\* largest pool_solutions of the first of two calls
MaxPairPool == 2

\* build_solve(df, budget) with every optional argument at its default (lines 32-43)
DefaultArgs(budget) ==
    [entry |-> "build_solve", budget |-> budget, K |-> None, groups_exclusive |-> <<>>,
     dependencies |-> <<>>, resource_caps |-> <<>>, region_min_max |-> <<>>,
     time_limit |-> None, pool_solutions |-> 0, pool_gap |-> None,
     multi_crit_alpha |-> AlphaDen, k |-> None]

\* budgets and pool_gap values (in percent) of the two calls
PairBudgets == {150, 300}
PairGaps == {None, 5}

\* the arguments of the second call: the first call's with a budget at least as
\* large, or the first call's without pool and with any pool_gap
NextArgs(a) ==
    { [a EXCEPT !.budget = b] : b \in {x \in PairBudgets : x >= a.budget} }
    \cup { [a EXCEPT !.pool_solutions = 0, !.pool_gap = g] : g \in PairGaps }

InitPair ==
    /\ df \in {d \in Datasets : Projects(d) = <<IdP1, IdP2>>}
    /\ \E a \in {x \in ArgSpace(df, PairBudgets, MaxPairPool) :
                     /\ x.entry = "build_solve"
                     /\ \/ x.pool_solutions = 0 /\ NonDefault(x) <= MaxPairNonDefault
                        \/ x = [DefaultArgs(x.budget) EXCEPT !.pool_solutions = x.pool_solutions]} :
          \E g \in IF a.pool_solutions = 0 THEN PairGaps ELSE {None} :
             args = [a EXCEPT !.pool_gap = g]
    /\ Start

\* the caller keeps the best objective_value the first call gave and calls again; the Python objects of
\* the first call (its model included) are still around, every local starts afresh
Again ==
    /\ pc \in {"returned", "raised"}
    /\ prev = NoPrev
    /\ prev' = [args |-> args, kind |-> result.kind,
                best |-> IF result.solutions # <<>> THEN result.solutions[1].obj ELSE None,
                allOptimal |-> allOptimal]
    /\ args' \in NextArgs(args)
    /\ pc' = "build"
    /\ benefit_used' = <<>> /\ pool_objs' = <<>> /\ s' = 0 /\ reads' = "up"
    /\ solutions' = <<>> /\ unique' = <<>> /\ found' = <<>> /\ exclude_sets' = <<>> /\ i' = 0
    /\ result' = NoResult /\ optimizeCalls' = 0 /\ allOptimal' = TRUE /\ enumCalls' = 0
    /\ UNCHANGED <<df, m, gui>>

NextPair == Next \/ Again

SpecPair == InitPair /\ [][NextPair]_vars

-----------------------------------------------------------------------------
(* Properties *)

\* the batch of a finished top-level call
Batch == result.solutions

Returned == pc = "returned"

ReturnedBuildSolve == Returned /\ args.entry = "build_solve"

\* the selected ids of a Solution, as a set
SelSet(sol) == Range(sol.selected)

\* every selected id of the Solution is an id of the dataset, so that its
\* attributes can be looked up
KnownIds(sol) == SelSet(sol) \subseteq ProjSet(df)

\* the selections the rules of the call admit
Feasible == FeasibleSets(df, Constraints(df, args, <<>>))

\* C1: no two Solutions of a batch returned by build_solve have the same
\* selected-id set
C1_NoDuplicateSelections ==
    ReturnedBuildSolve =>
        \A a, b \in 1..Len(Batch) :
            a # b => SelSet(Batch[a]) # SelSet(Batch[b])

\* C2: every returned Solution (of ids of the dataset) satisfies, by direct
\* summation over its selected ids, the budget, the cardinality limit, every exclusivity group, every resource
\* cap whose resource is a column, and every quota of a region that has members
C2_RulesHold ==
    Returned =>
        \A n \in {x \in 1..Len(Batch) : KnownIds(Batch[x])} :
            LET S      == SelSet(Batch[n])
                groups == args.groups_exclusive
                caps   == args.resource_caps
                quotas == args.region_min_max
                InRegion(r) == {p \in ProjSet(df) : Column(df, "region")[p] = r}
            IN  /\ SumOver(S, Column(df, "cost")) <= args.budget
                /\ args.K # None => Cardinality(S) <= args.K
                /\ \A g \in 1..Len(groups) : Cardinality(S \cap Range(groups[g])) <= 1
                /\ \A c \in 1..Len(caps) :
                       HasColumn(df, caps[c][1]) => SumOver(S, Column(df, caps[c][1])) <= caps[c][2]
                /\ \A q \in 1..Len(quotas) :
                       InRegion(quotas[q][1]) # {} =>
                           /\ quotas[q][3] # None =>
                                  Cardinality(S \cap InRegion(quotas[q][1])) <= quotas[q][3]
                           /\ quotas[q][2] # None =>
                                  Cardinality(S \cap InRegion(quotas[q][1])) >= quotas[q][2]

\* C3: when build_solve is asked for more solutions than the rules admit
\* selections, and every solve ends OPTIMAL, the batch holds each admitted
\* selection exactly once
C3_Exhaustive ==
    (/\ ReturnedBuildSolve
     /\ args.pool_solutions >= 1
     /\ Cardinality(Feasible) < args.pool_solutions
     /\ allOptimal)
    => /\ Len(Batch) = Cardinality(Feasible)
       /\ {SelSet(Batch[n]) : n \in 1..Len(Batch)} = Feasible

\* C4: the objective value of every Solution (of ids of the dataset) returned by
\* build_solve is the sum of the objective coefficients of its selected ids
C4_ObjectiveMatches ==
    ReturnedBuildSolve =>
        \A n \in {x \in 1..Len(Batch) : KnownIds(Batch[x])} :
            Batch[n].obj = SumOver(SelSet(Batch[n]), BenefitUsed(df, args.multi_crit_alpha))

\* C5, as stated: build_solve returns at most pool_solutions Solutions, also for
\* pool_solutions = 0
C5_AtMostPoolSolutions ==
    ReturnedBuildSolve => Len(Batch) <= args.pool_solutions

\* C5: build_solve returns at most pool_solutions Solutions when
\* pool_solutions > 0, and at most one (the single best) when pool_solutions = 0
C5_AtMostPoolOrOne ==
    ReturnedBuildSolve =>
        Len(Batch) <= (IF args.pool_solutions > 0 THEN args.pool_solutions ELSE 1)

\* a pooled call that filled the batch to the requested size
C5_FullBatch ==
    ReturnedBuildSolve /\ args.pool_solutions = MaxPool /\ Len(Batch) = MaxPool

\* C6: once the solve of a build_solve call ended infeasible, unbounded or
\* without incumbent, the call raises nothing and returns an empty batch
C6_EmptyNotRaised ==
    (/\ args.entry = "build_solve"
     /\ pc \in {"raised", "returned"}
     /\ optimizeCalls >= 1
     /\ (m.Status \notin Usable \/ m.SolCount = 0))
    => pc = "returned" /\ Batch = <<>>

\* C7: a build_solve call with quotas on a dataset without 'region' column never
\* reaches optimize and never returns; when it ends it has raised ValueError
C7_RegionConfigError ==
    (/\ args.entry = "build_solve"
     /\ args.region_min_max # <<>>
     /\ ~HasColumn(df, "region"))
    => /\ optimizeCalls = 0
       /\ pc \in {"build", "raised"}
       /\ pc = "raised" => result = Raise("ValueError")

\* a call that raised the configuration error before any solve
C7_Raised ==
    /\ args.entry = "build_solve"
    /\ args.region_min_max # <<>> /\ ~HasColumn(df, "region")
    /\ pc = "raised" /\ result.error = "ValueError" /\ optimizeCalls = 0

\* C8: for every dependency pair (A, B) with both ids in the dataset, a returned
\* Solution that selects B selects A; a pair naming an absent id adds no
\* constraint, and the call raises nothing on its account
C8_DependencyClosure ==
    LET deps    == args.dependencies
        Present == {n \in 1..Len(deps) : deps[n][1] \in ProjSet(df) /\ deps[n][2] \in ProjSet(df)}
    IN  /\ Returned =>
            \A n \in 1..Len(Batch) : \A e \in Present :
                deps[e][2] \in SelSet(Batch[n]) => deps[e][1] \in SelSet(Batch[n])
        /\ Present = {} => DependencyConstrs(df, deps) = {}
        /\ (pc = "raised" /\ result.error = "ValueError") => RegionConfigError(df, args)

\* the example call: P1 and P2 with their raw benefit, no rule but the budget,
\* single best
ExampleCall(budget, deps) ==
    /\ ReturnedBuildSolve
    /\ Projects(df) = <<IdP1, IdP2>> /\ ~HasColumn(df, "social_score")
    /\ args.budget = budget /\ args.dependencies = deps
    /\ args.K = None /\ args.groups_exclusive = <<>> /\ args.resource_caps = <<>>
    /\ args.region_min_max = <<>> /\ args.pool_solutions = 0

\* C9, as stated: with budget 150 the best Solution selects {P2} with objective 90
C9_SelectsP2 ==
    ExampleCall(150, <<>>) =>
        Len(Batch) >= 1 /\ SelSet(Batch[1]) = {IdP2} /\ Batch[1].obj = 90

\* C9: with budget 150 the one Solution returned never selects P2 (cost 200); when
\* the solve ended OPTIMAL it selects {P1} with objective 50
C9_SelectsP1 ==
    ExampleCall(150, <<>>) =>
        /\ Len(Batch) = 1
        /\ IdP2 \notin SelSet(Batch[1])
        /\ result.status = "OPTIMAL" => Batch[1].selected = <<IdP1>> /\ Batch[1].obj = 50

\* the example solved to optimality under budget 150
C9_OptimalAt150 ==
    ExampleCall(150, <<>>) /\ result.status = "OPTIMAL" /\ Batch[1].selected = <<IdP1>>

\* C10, as stated: with 'P2 requires P1', a budget that covers P2 but not P1 and
\* P2 together gives the empty selection; a budget that covers both gives {} or
\* {P1, P2}
C10_EmptyOrBoth ==
    /\ ExampleCall(250, << <<IdP1, IdP2>> >>) =>
           Len(Batch) >= 1 /\ Batch[1].selected = <<>>
    /\ ExampleCall(300, << <<IdP1, IdP2>> >>) =>
           Len(Batch) >= 1 /\ SelSet(Batch[1]) \in {{}, {IdP1, IdP2}}

\* C10: with 'P2 requires P1' the best Solution never selects P2 without P1.  Under
\* a budget that covers P2 but not both it selects {} or {P1}, and {P1} when the
\* solve ended OPTIMAL; under a budget that covers both it selects {P1, P2} when
\* the solve ended OPTIMAL
C10_PrerequisiteFirst ==
    /\ ExampleCall(250, << <<IdP1, IdP2>> >>) =>
           /\ Len(Batch) = 1
           /\ SelSet(Batch[1]) \in {{}, {IdP1}}
           /\ result.status = "OPTIMAL" => Batch[1].selected = <<IdP1>>
    /\ ExampleCall(300, << <<IdP1, IdP2>> >>) =>
           /\ Len(Batch) = 1
           /\ SelSet(Batch[1]) \in {{}, {IdP1}, {IdP1, IdP2}}
           /\ result.status = "OPTIMAL" => Batch[1].selected = <<IdP1, IdP2>>

\* the dependent example solved to optimality under the budget that covers P2 only
C10_OptimalAt250 ==
    /\ ExampleCall(250, << <<IdP1, IdP2>> >>)
    /\ result.status = "OPTIMAL" /\ Batch[1].selected = <<IdP1>>

-----------------------------------------------------------------------------
(* The deduplication of lines 261-269 on raw batches of any content *)

\* longest raw batch
MaxBatch == 3

\* selections and objective values of the Solutions of a raw batch
DedupSelections == {<<>>, <<IdP1>>, <<IdP1, IdP2>>, <<IdP2, IdP1>>}
DedupObjs == {0, 140}

\* the batches the loop of lines 192-254 may have appended: slot s numbered s
RawBatches ==
    UNION { { q \in [1..n -> [sol_no : 0..(n - 1), selected : DedupSelections, obj : DedupObjs]] :
                \A k \in 1..n : q[k].sol_no = k - 1 } : n \in 0..MaxBatch }

\* build_solve at line 261, after a pooled solve that gave the raw batch
InitDedup ==
    /\ df \in {d \in Datasets : Projects(d) = <<IdP1, IdP2>>}
    /\ solutions \in RawBatches
    /\ args = [DefaultArgs(250) EXCEPT !.pool_solutions = Len(solutions)]
    /\ pc = "dedup"
    /\ benefit_used = BenefitUsed(df, args.multi_crit_alpha)
    /\ m = [NewModel(args.pool_solutions, args.pool_gap, args.time_limit)
              EXCEPT !.Status = IF solutions = <<>> THEN "INFEASIBLE" ELSE "OPTIMAL",
                     !.SolCount = Len(solutions),
                     !.SolutionNumber = IF solutions = <<>> THEN 0 ELSE Len(solutions) - 1]
    /\ pool_objs = [k \in 1..Len(solutions) |-> solutions[k].obj]
    /\ s = Len(solutions)
    /\ reads = "up"
    /\ unique = <<>> /\ found = <<>> /\ exclude_sets = <<>> /\ i = 0
    /\ result = NoResult
    /\ optimizeCalls = 1
    /\ allOptimal = (solutions # <<>>)
    /\ enumCalls = 0
    /\ prev = NoPrev
    /\ gui = NoGui

SpecDedup == InitDedup /\ [][DedupStep]_vars

-----------------------------------------------------------------------------
(* Two calls on the same dataset *)

\* the second call has returned and the first call returned too
BothReturned == pc = "returned" /\ prev.kind = "return"

\* every solve of both calls ended with status OPTIMAL
BothOptimal == prev.allOptimal /\ allOptimal

\* C11: two build_solve calls on the same dataset with the same rules and budgets
\* b1 <= b2, every solve of which reached optimal status: the best objective value
\* returned with budget b2 is at least the one returned with budget b1.
C11_BudgetMonotone ==
    (BothReturned /\ BothOptimal
        /\ args = [prev.args EXCEPT !.budget = args.budget]
        /\ prev.args.budget <= args.budget)
    => (Batch # <<>> /\ prev.best # None /\ Batch[1].obj >= prev.best)

\* the larger budget bought a strictly better optimum
C11_BudgetRaised ==
    /\ BothReturned /\ BothOptimal
    /\ args = [prev.args EXCEPT !.budget = args.budget]
    /\ prev.args.budget < args.budget
    /\ Batch # <<>> /\ prev.best # None /\ Batch[1].obj > prev.best

\* C12 as stated: two build_solve calls with the same dataset and the same
\* configuration return batches whose first Solution has the same objective value.
C12_SameBest ==
    (BothReturned /\ args = prev.args /\ Batch # <<>> /\ prev.best # None)
    => Batch[1].obj = prev.best

\* C12: two build_solve calls with the same dataset and the same configuration,
\* every solve of which ended with status OPTIMAL, return batches whose first
\* Solution has the same objective value.
C12_SameBestWhenOptimal ==
    (BothReturned /\ BothOptimal /\ args = prev.args)
    => (Batch # <<>> /\ prev.best # None /\ Batch[1].obj = prev.best)

\* the same call was repeated and gave the same positive optimum
C12_Repeated ==
    /\ BothReturned /\ BothOptimal /\ args = prev.args
    /\ Batch # <<>> /\ Batch[1].obj = prev.best /\ prev.best > 0

-----------------------------------------------------------------------------
(* Frame of a call, and the rounds of the enumeration *)

Selections(q, n) == [j \in 1..n |-> q[j].selected]

\* C18: the solve of round i of enumerate_k_best is a single-best solve whose
\* exclusion sets are exactly the selections appended to the accumulator in rounds
\* 0..i-1, in order, and round i+1 starts with the selection of round i added.
C18_RoundsSequential ==
    /\ RoundArgs.pool_solutions = 0
    /\ Len(exclude_sets) <= Len(found)
    /\ exclude_sets = Selections(found, Len(exclude_sets))
    /\ pc = "enum" => i = Len(found) /\ Len(exclude_sets) = Len(found)
    /\ \A n \in 1..Len(found) :
          found[n].iteration = n - 1 /\ found[n].excluded = Selections(found, n - 1)

\* the second round of an enumeration excluded the selection of the first and its
\* own selection was added to the exclusion sets
C18_SecondRound ==
    /\ Len(found) = 2 /\ found[2].excluded = <<found[1].selected>>
    /\ exclude_sets = <<found[1].selected, found[2].selected>>

-----------------------------------------------------------------------------
(* Parameters of the model at the solve *)

\* C14: a build_solve call with pool_solutions = 0 reaches the solve with every
\* alternative-search parameter (search mode, requested solution count,
\* suboptimality tolerance) at its inert default, whatever earlier calls
\* configured and whatever pool_gap is passed.
C14_InertWithoutPool ==
    (pc = "optimize" /\ args.pool_solutions = 0)
    => (m.PoolSearchMode = 0 /\ m.PoolSolutions = None /\ m.PoolGap = None)

-----------------------------------------------------------------------------
(* Status of the returned result *)

\* C15: a result of build_solve whose Solutions come from a solve that ended with
\* a time-limit or suboptimal status is not presented with status optimal, also
\* when the Solutions come from the fallback rounds: here every round of the
\* fallback gave an entry of the batch and one solve of the call was not optimal.
C15_StatusAnnotated ==
    (ReturnedBuildSolve /\ enumCalls = 1 /\ found # <<>> /\ Batch = found
        /\ optimizeCalls = 1 + Len(found) /\ ~allOptimal)
    => result.status # "OPTIMAL"

-----------------------------------------------------------------------------
(* The fallback: when it runs and what it returns *)

\* C16: whenever build_solve invoked the enumerate_k_best fallback, the returned
\* batch is the fallback's output cut to its first pool_solutions entries; no
\* Solution of the native pool is left in it.
C16_FallbackSupersedes ==
    (ReturnedBuildSolve /\ enumCalls >= 1) => Batch = Prefix(found, args.pool_solutions)

\* the fallback ran after an optimal native solve and its two entries are the batch
C16_Replaced ==
    /\ ReturnedBuildSolve /\ enumCalls = 1 /\ result.status = "OPTIMAL"
    /\ Len(found) = 2 /\ Batch = found

\* C17: in every returned batch the sequence number of the Solution at 0-based
\* position n is n.
C17_SequenceNumbers ==
    Returned => \A n \in 1..Len(Batch) : Batch[n].sol_no = n - 1

\* a batch of two Solutions was returned, from the native pool or from the fallback
C17_TwoNumbered ==
    /\ Returned /\ Len(Batch) = 2
    /\ Batch[1].sol_no = 0 /\ Batch[2].sol_no = 1

\* C19: when the solve of a round of enumerate_k_best yields no Solution (one more
\* solve was run than entries were accumulated), the loop has stopped and the
\* function returns exactly the accumulated entries, without raising.
C19_EmptyRoundStops ==
    (args.entry = "enumerate_k_best" /\ optimizeCalls = Len(found) + 1)
    => /\ pc \in {"enum_done", "returned"}
       /\ pc = "returned" => result = Return(found, "")

\* C20: build_solve invokes enumerate_k_best if and only if pool_solutions > 0 and
\* the deduplicated native batch holds fewer than pool_solutions Solutions.
C20_FallbackIff ==
    args.entry = "build_solve" =>
        /\ pc \in {"build", "optimize", "collect", "pool_objs", "pool_read", "dedup"}
              => enumCalls = 0
        /\ enumCalls \in {0, 1}
        /\ (enumCalls = 1 /\ pc \in {"enum", "enum_done", "raised"})
              => (args.pool_solutions > 0 /\ Len(unique) < args.pool_solutions)
        /\ (enumCalls = 0 /\ pc = "returned")
              => ~(args.pool_solutions > 0 /\ Len(unique) < args.pool_solutions)

\* the native pool gave the two Solutions asked for and the fallback did not run
C20_PoolSufficed ==
    /\ ReturnedBuildSolve /\ args.pool_solutions = 2 /\ Len(Batch) = 2 /\ enumCalls = 0

-----------------------------------------------------------------------------
(* Number of solves of a call *)

\* C21: a build_solve call with pool_solutions = k runs the solver at most 1 + k
\* times: the fallback is entered at most once, runs at most k rounds, and the
\* build_solve of a round never enters it again.
C21_BoundedSolves ==
    args.entry = "build_solve" =>
        /\ optimizeCalls <= 1 + args.pool_solutions
        /\ enumCalls <= 1
        /\ Len(found) <= args.pool_solutions

\* a call with pool_solutions = 2 returned after the native solve and two rounds
C21_AllRoundsRun ==
    /\ ReturnedBuildSolve /\ args.pool_solutions = 2
    /\ optimizeCalls = 3 /\ enumCalls = 1

-----------------------------------------------------------------------------
(* Deduplication *)

\* the two selections hold the same ids, each as often
SameIds(a, b) ==
    /\ Len(a) = Len(b)
    /\ \A x \in Range(a) \cup Range(b) : Count(a, x) = Count(b, x)

\* positions of the raw batch whose selection no earlier position holds
FirstSeen(raw) ==
    {n \in 1..Len(raw) : \A j \in 1..(n - 1) : ~SameIds(raw[j].selected, raw[n].selected)}

\* the k-th smallest member of a set of positions
Kth(S, k) == CHOOSE n \in S : Cardinality({x \in S : x <= n}) = k

-----------------------------------------------------------------------------
(* The slots of a pooled solve *)

\* every id of the dataset is recovered unchanged from the name of its variable
PlainIds == \A p \in ProjSet(df) : IdFromVarName(VarName(p)) = p

\* C23: in a pooled solve whose reads of the variable values all succeed, the
\* Solution assembled for slot s is numbered s and carries the assignment of slot s
\* (the ids whose value in slot s exceeds 0.5), not that of another slot or of the
\* primary incumbent.  Stated for datasets whose ids survive the recovery from
\* the variable names.
C23_SlotOwnAssignment ==
    (pc \in {"pool_read", "dedup"} /\ args.pool_solutions > 0 /\ reads = "up" /\ PlainIds)
    => \A n \in 1..Len(solutions) :
          /\ solutions[n].sol_no = n - 1
          /\ solutions[n].selected = SelFromVars(Projects(df), m.pool[n])

\* C24: when the reads of a slot's variable values or objective fail during a
\* pooled solve, the Solution of the slot carries the primary incumbent's values,
\* the loop still assembles a Solution for every slot, and no exception of a slot
\* read leaves build_solve: the native part of the call raises only when the
\* model holds no solution at all.
C24_ReadFailureRecovered ==
    /\ (pc \in {"pool_read", "dedup"} /\ args.pool_solutions > 0 /\ reads = "x" /\ PlainIds)
       => \A n \in 1..Len(solutions) :
             /\ solutions[n].selected = SelFromVars(Projects(df), Incumbent(m))
             /\ solutions[n].obj \in {ObjOf(Coef, m.pool[n]), ObjOf(Coef, Incumbent(m))}
    /\ (pc = "dedup" /\ args.pool_solutions > 0 /\ m.Status \in Usable /\ SolCount(m) > 0)
       => Len(solutions) = Take
    /\ (pc = "raised" /\ args.entry = "build_solve" /\ enumCalls = 0
           /\ result.error = "GurobiError")
       => SolCount(m) = 0

\* both slots of a pool were read after the slot values had become unreadable:
\* the second Solution carries the incumbent's projects, not those of its slot
C24_Substituted ==
    /\ pc = "dedup" /\ args.pool_solutions = 2 /\ reads = "x" /\ PlainIds
    /\ Len(solutions) = 2 /\ m.pool[2] # m.pool[1]
    /\ solutions[2].selected = SelFromVars(Projects(df), Incumbent(m))
    /\ solutions[2].selected # <<>>

-----------------------------------------------------------------------------
(* The sequence returned by the enumeration *)

\* the selections the rules of the call allow, exclusion sets apart
Allowed == FeasibleSets(df, Constraints(df, RoundArgs, <<>>))

\* C25: in the list of enumerate_k_best, every solve having reached optimal
\* status, objective values are non-increasing along the sequence and the Solution
\* of round i is an optimum among the feasible selections not returned in rounds
\* 0..i-1.
C25_SuccessiveOptima ==
    (args.entry = "enumerate_k_best" /\ allOptimal)
    => \A n \in 1..Len(found) :
          /\ n > 1 => found[n].obj <= found[n - 1].obj
          /\ \A S \in Allowed :
                S \notin {SelSet(found[j]) : j \in 1..(n - 1)} => ObjOf(Coef, S) <= found[n].obj

\* C26: a round of enumerate_k_best whose best Solution has an empty selection is
\* appended to the accumulator and ends the enumeration without adding an
\* exclusion set: the empty selection is in the list at most once, as its last
\* element.
C26_EmptySelectionLast ==
    \A n \in 1..Len(found) :
        found[n].selected = <<>> =>
            /\ n = Len(found)
            /\ pc \in {"enum_done", "returned"}
            /\ exclude_sets = Selections(found, n - 1)

\* an enumeration asked for two Solutions returned after one round, whose best
\* Solution selected nothing
C26_EndedEarly ==
    /\ pc = "returned" /\ args.entry = "enumerate_k_best" /\ args.k = 2
    /\ Batch = found /\ Len(found) = 1 /\ found[1].selected = <<>>
    /\ optimizeCalls = 1 /\ exclude_sets = <<>>

-----------------------------------------------------------------------------
(* The ids of the returned selections *)

\* C27: whatever the form of the project ids of the dataset, every id in the
\* selected list of every Solution returned by build_solve is an id of the
\* dataset, on the native-pool path as on the single-best path.
C27_IdsOfDataset ==
    ReturnedBuildSolve =>
        \A n \in 1..Len(Batch) : Range(Batch[n].selected) \subseteq ProjSet(df)

-----------------------------------------------------------------------------
(* The window and the solver thread: ihm_main.py and solver_thread.py *)

\* parameters of SolverThread.__init__ (solver_thread.py lines 16-18)
ThreadParams ==
    {"df", "budget", "resource_caps", "groups_exclusive", "dependencies", "region_min_max",
     "K", "time_limit", "pool_solutions", "multi_crit_alpha"}

\* keywords of the SolverThread(...) call of on_solve (ihm_main.py lines 455-465)
OnSolveKeywords ==
    {"df", "budget", "resource_caps", "groups_exclusive", "dependencies", "region_min_max",
     "K", "time_limit", "pool_solutions", "pool_gap", "multi_crit_alpha"}

\* a call with a keyword the function does not declare raises TypeError
AcceptsKeywords(keywords, params) == keywords \subseteq params

\* what an exception that leaves a slot does to the application: it is printed and
\* the event loop goes on, or the application is aborted, depending on the binding
AfterSlotException == {"open", "aborted"}

\* MainWindow after __init__ (ihm_main.py lines 160-173), the budget field holding
\* a number or not
Window(ok) ==
    [NoGui EXCEPT !.caller = "MainWindow", !.window = "open", !.budget_ok = ok]

\* a SolverThread constructed with its declared parameters, not yet started
Thread == [NoGui EXCEPT !.caller = "SolverThread", !.thread = "constructed"]

InitGui ==
    /\ df \in {d \in Datasets : Projects(d) = <<IdP1, IdP2>>}
    /\ args \in {a \in ArgSpace(df, Budgets, MaxPool) : a.entry = "build_solve"}
    /\ gui \in {Window(ok) : ok \in BOOLEAN} \cup {Thread}
    /\ pc = "idle"
    /\ benefit_used = <<>> /\ m = FreshModel /\ pool_objs = <<>> /\ s = 0 /\ reads = "up"
    /\ solutions = <<>> /\ unique = <<>> /\ found = <<>> /\ exclude_sets = <<>> /\ i = 0
    /\ result = NoResult /\ optimizeCalls = 0 /\ allOptimal = TRUE /\ enumCalls = 0
    /\ prev = NoPrev

\* MainWindow.on_solve, ihm_main.py lines 411-468
OnSolve ==
    /\ gui.caller = "MainWindow" /\ gui.window = "open" /\ gui.btn_solve
    /\ IF ~gui.budget_ok
       THEN gui' = [gui EXCEPT !.warned = TRUE] /\ UNCHANGED pc
       ELSE IF AcceptsKeywords(OnSolveKeywords, ThreadParams)
       THEN /\ gui' = [gui EXCEPT !.btn_solve = FALSE, !.btn_stop = TRUE,
                                  !.thread = "running", !.connected = TRUE]
            /\ pc' = "build"
       ELSE /\ \E w \in AfterSlotException :
                 gui' = [gui EXCEPT !.btn_solve = FALSE, !.btn_stop = TRUE, !.window = w]
            /\ UNCHANGED pc
    /\ UNCHANGED <<df, args, benefit_used, m, pool_objs, s, reads, solutions, unique, found,
                   exclude_sets, i, result, optimizeCalls, allOptimal, enumCalls, prev>>

\* MainWindow.on_stop, ihm_main.py lines 498-510
OnStop ==
    /\ gui.caller = "MainWindow" /\ gui.window = "open" /\ gui.btn_stop
    /\ IF gui.thread = "running"
       THEN /\ gui' = [gui EXCEPT !.btn_solve = TRUE, !.btn_stop = FALSE, !.thread = "terminated"]
            /\ pc' = "terminated"
       ELSE /\ gui' = [gui EXCEPT !.btn_solve = TRUE, !.btn_stop = FALSE]
            /\ UNCHANGED pc
    /\ UNCHANGED <<df, args, benefit_used, m, pool_objs, s, reads, solutions, unique, found,
                   exclude_sets, i, result, optimizeCalls, allOptimal, enumCalls, prev>>

\* QThread.start() on a constructed thread: run() calls build_solve
ThreadStart ==
    /\ gui.thread = "constructed"
    /\ gui' = [gui EXCEPT !.thread = "running"]
    /\ pc' = "build"
    /\ UNCHANGED <<df, args, benefit_used, m, pool_objs, s, reads, solutions, unique, found,
                   exclude_sets, i, result, optimizeCalls, allOptimal, enumCalls, prev>>

\* SolverThread.run after build_solve, solver_thread.py lines 44-48
ThreadEmit ==
    /\ gui.thread = "running" /\ pc \in {"returned", "raised"}
    /\ gui' = [gui EXCEPT !.thread = "ended",
                          !.emitted = Append(@, IF pc = "returned" THEN "finished" ELSE "error")]
    /\ UNCHANGED <<df, args, pc, benefit_used, m, pool_objs, s, reads, solutions, unique, found,
                   exclude_sets, i, result, optimizeCalls, allOptimal, enumCalls, prev>>

\* a signal emitted by the thread and not yet handled by the slot connected to it
\* (ihm_main.py lines 466-467)
Pending(sig) ==
    /\ gui.connected /\ gui.window = "open"
    /\ Len(gui.handled) < Len(gui.emitted)
    /\ gui.emitted[Len(gui.handled) + 1] = sig

\* MainWindow.on_solver_finished, ihm_main.py lines 512-547
OnSolverFinished ==
    /\ Pending("finished")
    /\ gui' = [gui EXCEPT !.btn_solve = TRUE, !.btn_stop = FALSE,
                          !.handled = Append(@, "finished"), !.thread = "none"]
    /\ UNCHANGED <<df, args, pc, benefit_used, m, pool_objs, s, reads, solutions, unique, found,
                   exclude_sets, i, result, optimizeCalls, allOptimal, enumCalls, prev>>

\* MainWindow.on_solver_error, ihm_main.py lines 598-603
OnSolverError ==
    /\ Pending("error")
    /\ gui' = [gui EXCEPT !.btn_solve = TRUE, !.btn_stop = FALSE,
                          !.handled = Append(@, "error"), !.thread = "none"]
    /\ UNCHANGED <<df, args, pc, benefit_used, m, pool_objs, s, reads, solutions, unique, found,
                   exclude_sets, i, result, optimizeCalls, allOptimal, enumCalls, prev>>

\* The two slots are connected by on_solve only, after the construction of the
\* thread; no step of the program as it stands reaches them.
NextGui == Next \/ OnSolve \/ OnStop \/ ThreadStart \/ ThreadEmit

SpecGui == InitGui /\ [][NextGui]_vars

\* C28: once on_solve has disabled the Optimise button and enabled the Stop
\* button a SolverThread has been constructed and started with both slots
\* connected, so that on_solver_finished or on_solver_error re-enables the
\* Optimise button without the user pressing Stop; and a run of SolverThread emits
\* exactly one of the signals finished and error.
C28_SolveStartsThread ==
    /\ (gui.caller = "MainWindow" /\ ~gui.btn_solve /\ gui.btn_stop)
       => (gui.window = "open" /\ gui.connected /\ gui.thread \in {"running", "ended"})
    /\ gui.thread = "ended" => Len(gui.emitted) = 1
    /\ gui.thread \in {"constructed", "running"} => gui.emitted = <<>>

====
